---- MODULE Spec2Model ----
(***************************************************************************)
(* A model of youtube_subscriptions.py: OAuth credential loading, the      *)
(* paginated subscription fetch, the batched topic fetch, the genre        *)
(* grouping, the Markdown rendering and main's error handling.             *)
(*                                                                         *)
(* Python strings that the program inspects character by character (topic  *)
(* URLs, genre labels, titles, descriptions) are sequences of one-character*)
(* strings.  Channel identifiers are opaque to the program: a natural      *)
(* number n >= 1 stands for a non-empty identifier, EmptyId for "".        *)
(***************************************************************************)
EXTENDS Integers, Sequences, FiniteSets, TLC

VARIABLES
    pc,             \* position of the running function
    entry,          \* the function that was called at top level
    error,          \* the exception raised, NoValue when there is none
    topic_url,      \* readable_topic: its argument
    label,          \* readable_topic: its return value
    subscriptions,  \* the list of Subscription records
    topics,         \* the topic map: channel id -> list of topic URLs
    grouped,        \* the grouping: genre label -> list of Subscription
    markdown,       \* the lines of the rendered document
    pages,          \* the subscriptions endpoint: the chain of responses
    request,        \* fetch_subscriptions: the page to request, 0 for None
    requests,       \* the pages requested from the subscriptions endpoint
    channel_ids,    \* fetch_channel_topics: its argument
    api_channels,   \* the channels endpoint (see ChannelShape)
    batches,        \* the batches requested from the channels endpoint
    output_file,    \* the content of the output file, None while absent
    output_writes,  \* how many times write_output ran
    stdout,         \* what print wrote
    stderr,         \* what the interpreter wrote when the process ended
    exit_status,    \* the exit status, NoValue while the process runs
    token_file,     \* the token file
    client_secret,  \* the client secret file: "present" or "missing"
    creds,          \* load_credentials: its local creds
    loaded,         \* the credential as read from the token file
    cred_log,       \* refresh, flow and write steps of load_credentials
    returned_creds  \* what load_credentials returned

labelVars == <<topic_url, label>>
dataVars  == <<subscriptions, topics, grouped, markdown>>
fetchVars == <<pages, request, requests>>
topicVars == <<channel_ids, api_channels, batches>>
outVars   == <<output_file, output_writes, stdout, stderr, exit_status>>
credVars  == <<token_file, client_secret, creds, loaded, cred_log, returned_creds>>
vars      == <<pc, entry, error, labelVars, dataVars, fetchVars, topicVars, outVars,
               credVars>>

(***************************************************************************)
(* Bounds of the model.                                                    *)
(***************************************************************************)
MaxTail == 5        \* characters of a topic URL after its optional prefix
MaxSubs == 4        \* subscriptions handed to categorize_subscriptions
MaxPages == 3       \* responses in the chain the subscriptions endpoint serves
MaxIds == 120       \* channel identifiers handed to fetch_channel_topics

(***************************************************************************)
(* Characters.                                                             *)
(***************************************************************************)
\* Code points of the characters the model uses (Python compares strings by
\* code point).
Ascii ==
    [c \in {"\n", " ", "\"", "%", "/", "2", "5", ":", "A", "B", "R", "U", "Z",
            "_", "a", "b", "c", "d", "e", "g", "h", "i", "m", "n", "o",
            "r", "s", "t", "u", "z"} |->
        CASE c = "\n" -> 10  [] c = " " -> 32   [] c = "\"" -> 34
          [] c = "%" -> 37   [] c = "/" -> 47   [] c = "2" -> 50
          [] c = "5" -> 53   [] c = ":" -> 58   [] c = "A" -> 65
          [] c = "B" -> 66   [] c = "R" -> 82   [] c = "U" -> 85
          [] c = "Z" -> 90   [] c = "_" -> 95   [] c = "a" -> 97
          [] c = "b" -> 98   [] c = "c" -> 99   [] c = "d" -> 100
          [] c = "e" -> 101  [] c = "g" -> 103  [] c = "h" -> 104
          [] c = "i" -> 105  [] c = "m" -> 109  [] c = "n" -> 110
          [] c = "o" -> 111  [] c = "r" -> 114  [] c = "s" -> 115
          [] c = "t" -> 116  [] c = "u" -> 117
          [] c = "z" -> 122]

Ord(c) == Ascii[c]

Chr(n) == CHOOSE c \in DOMAIN Ascii : Ascii[c] = n

\* The value of a hexadecimal digit, -1 for any other character.
HexVal(c) ==
    CASE c = "2" -> 2 [] c = "5" -> 5 [] c = "A" -> 10 [] c = "a" -> 10
      [] c = "B" -> 11 [] c = "b" -> 11 [] c = "c" -> 12 [] c = "d" -> 13
      [] c = "e" -> 14 [] OTHER -> -1

IsHex(c) == HexVal(c) >= 0

IsSchemeChar(c) ==
    \/ Ord(c) \in 48..57
    \/ Ord(c) \in 65..90
    \/ Ord(c) \in 97..122

IsAlpha(c) == Ord(c) \in 65..90 \/ Ord(c) \in 97..122

\* s[i..] (1-based), the empty sequence when i is past the end.
From(s, i) == SubSeq(s, i, Len(s))

\* A loop `for x in s[lo..hi]: acc = Op(acc, x)`, the items visited from left
\* to right.  It is evaluated by halves, the result of the first half being
\* computed (the test left = left) before the second half starts: TLC
\* evaluates arguments lazily, and a chain of one pending argument per item
\* would exhaust its stack on the lists of a full page.
RECURSIVE Loop(_, _, _, _, _)
Loop(Op(_, _), acc, s, lo, hi) ==
    IF lo > hi THEN acc
    ELSE IF lo = hi THEN Op(acc, s[lo])
    ELSE LET mid  == (lo + hi) \div 2
             left == Loop(Op, acc, s, lo, mid)
         IN  IF left = left THEN Loop(Op, left, s, mid + 1, hi) ELSE left

ForEach(Op(_, _), acc, s) == Loop(Op, acc, s, 1, Len(s))

\* Index of the first / last occurrence of c in s, 0 when there is none.
Find(s, c) ==
    IF \E i \in 1..Len(s) : s[i] = c
    THEN CHOOSE i \in 1..Len(s) : s[i] = c /\ \A j \in 1..(i - 1) : s[j] # c
    ELSE 0

RFind(s, c) ==
    IF \E i \in 1..Len(s) : s[i] = c
    THEN CHOOSE i \in 1..Len(s) : s[i] = c /\ \A j \in (i + 1)..Len(s) : s[j] # c
    ELSE 0

(***************************************************************************)
(* readable_topic                                                          *)
(***************************************************************************)
\* urlparse(topic_url).path for URLs without '?', '#' and ';': the scheme
\* (up to the first ':', when what precedes it is a scheme name) and the
\* network location (after a leading "//", up to the next '/') are removed.
StripScheme(u) ==
    LET i == Find(u, ":")
    IN  IF /\ i > 1
           /\ IsAlpha(u[1])
           /\ \A j \in 1..(i - 1) : IsSchemeChar(u[j])
        THEN From(u, i + 1)
        ELSE u

StripNetloc(u) ==
    IF Len(u) >= 2 /\ u[1] = "/" /\ u[2] = "/"
    THEN LET rest == From(u, 3)
             k    == Find(rest, "/")
         IN  IF k = 0 THEN <<>> ELSE From(rest, k)
    ELSE u

UrlPath(u) == StripNetloc(StripScheme(u))

\* path.rsplit("/", maxsplit=1)[-1]
LastSegment(path) == From(path, RFind(path, "/") + 1)

\* label.replace("_", " ")
ReplaceUnderscores(s) == [i \in 1..Len(s) |-> IF s[i] = "_" THEN " " ELSE s[i]]

\* urllib.parse.unquote on ASCII input: every '%' followed by two
\* hexadecimal digits becomes the character with that code, scanning left
\* to right; any other '%' stays.
RECURSIVE Unquote(_)
Unquote(s) ==
    IF s = <<>> THEN <<>>
    ELSE IF s[1] = "%" /\ Len(s) >= 3 /\ IsHex(s[2]) /\ IsHex(s[3])
         THEN <<Chr(16 * HexVal(s[2]) + HexVal(s[3]))>> \o Unquote(From(s, 4))
         ELSE <<s[1]>> \o Unquote(Tail(s))

Uncategorized == <<"U", "n", "c", "a", "t", "e", "g", "o", "r", "i", "z", "e", "d">>

\* A plausible slip: the label is returned without percent-decoding.
readable_topic_undecoded(url) ==
    LET lbl == ReplaceUnderscores(LastSegment(UrlPath(url)))
    IN  IF lbl = <<>> THEN Uncategorized ELSE lbl

readable_topic(url) ==
    LET lbl == ReplaceUnderscores(LastSegment(UrlPath(url)))
    IN  Unquote(IF lbl = <<>> THEN Uncategorized ELSE lbl)

\* Whether s holds a '%' followed by two hexadecimal digits.
HasEscape(s) ==
    \E i \in 1..(Len(s) - 2) : s[i] = "%" /\ IsHex(s[i + 1]) /\ IsHex(s[i + 2])

(***************************************************************************)
(* Optional values: dict.get returns None for a missing key.               *)
(***************************************************************************)
None == [some |-> FALSE]
Some(v) == [some |-> TRUE, v |-> v]

\* dict.get(key, default)
GetOr(o, default) == IF o.some THEN o.v ELSE default

\* The empty string as a channel identifier.
EmptyId == 0

ChannelUrlBase == "https://www.youtube.com/channel/"

\* Subscription(channel_id=..., title=..., description=..., channel_url=
\* f"https://www.youtube.com/channel/{channel_id}")
Subscription(channel_id, title, description) ==
    [channel_id  |-> channel_id,
     title       |-> title,
     description |-> description,
     channel_url |-> <<ChannelUrlBase, channel_id>>]

(***************************************************************************)
(* fetch_subscriptions                                                     *)
(***************************************************************************)
\* The {} that item.get("snippet", {}) and snippet.get("resourceId", {})
\* default to.
EmptySnippet == [resourceId |-> None, title |-> None, description |-> None]

EmptyResourceId == [channelId |-> None]

\* snippet.resourceId.channelId of an item, None when a level is missing.
ItemChannelId(item) ==
    LET snippet     == GetOr(item.snippet, EmptySnippet)
        resource_id == GetOr(snippet.resourceId, EmptyResourceId)
    IN  resource_id.channelId

\* `not channel_id`: None and "" are false.
NoChannelId(channel_id) == IF channel_id.some THEN channel_id.v = EmptyId ELSE TRUE

ItemSubscription(item) ==
    LET snippet == GetOr(item.snippet, EmptySnippet)
    IN  Subscription(ItemChannelId(item).v,
                     GetOr(snippet.title, <<>>),
                     GetOr(snippet.description, <<>>))

\* A slip: only a missing identifier is skipped, not an empty one
\* (`is None` for `not`).
AppendItem_keepsEmptyId(subs, item) ==
    IF ~ItemChannelId(item).some THEN subs
    ELSE Append(subs, ItemSubscription(item))

\* The body of the for loop over the items of one response.
AppendItem(subs, item) ==
    IF NoChannelId(ItemChannelId(item)) THEN subs
    ELSE Append(subs, ItemSubscription(item))

AppendItems(subs, items) == ForEach(AppendItem, subs, items)

\* list_next(request, response): the request of the next page, None (0) when
\* the response is the last of the chain.
ListNext(chain, req) == IF req < Len(chain) THEN req + 1 ELSE 0

(***************************************************************************)
(* _chunked, fetch_channel_topics                                          *)
(***************************************************************************)
BatchSize == 50     \* _chunked(channel_ids, 50)

\* The body of _chunked's for loop: st.chunk is the chunk being filled,
\* st.out the chunks yielded so far.
ChunkStep(st, item, size) ==
    LET chunk == Append(st.chunk, item)
    IN  IF Len(chunk) = size
        THEN [chunk |-> <<>>, out |-> Append(st.out, chunk)]
        ELSE [chunk |-> chunk, out |-> st.out]

\* A slip: the last, shorter chunk is not yielded.
Chunked_noRemainder(ids, size) ==
    LET Step(st, item) == ChunkStep(st, item, size)
    IN  ForEach(Step, [chunk |-> <<>>, out |-> <<>>], ids).out

\* list(_chunked(ids, size))
Chunked(ids, size) ==
    LET Step(st, item) == ChunkStep(st, item, size)
        end == ForEach(Step, [chunk |-> <<>>, out |-> <<>>], ids)
    IN  IF end.chunk # <<>> THEN Append(end.out, end.chunk) ELSE end.out

\* The topic URLs of the model.
UrlMusic  == <<"s", ":", "/", "/", "h", "/", "m">>             \* label "m"
UrlUpper  == <<"s", ":", "/", "/", "h", "/", "%", "5", "5">>   \* label "U"
UrlNoName == <<"s", ":", "/", "/", "h", "/">>                  \* no last segment

\* What the channels endpoint holds for a channel: nothing (a deleted
\* channel), an item without "id", without "topicDetails", without
\* "topicCategories", or with a list of topic URLs.  The variable
\* api_channels shifts the assignment of these to the identifiers.
ChannelShapes ==
    <<"music", "nodetails", "absent", "upper", "nocategories", "noid", "emptylist">>

ChannelShape(shift, id) == ChannelShapes[((id + shift) % Len(ChannelShapes)) + 1]

ChannelItem(shift, id) ==
    LET shape == ChannelShape(shift, id)
    IN  [id |-> IF shape = "noid" THEN None ELSE Some(id),
         topicDetails |->
            CASE shape = "nodetails"    -> None
              [] shape = "nocategories" -> Some([topicCategories |-> None])
              [] shape = "emptylist"    -> Some([topicCategories |-> Some(<<>>)])
              [] shape = "upper"        ->
                    Some([topicCategories |-> Some(<<UrlUpper, UrlMusic>>)])
              [] OTHER                  ->
                    Some([topicCategories |-> Some(<<UrlMusic>>)])]

\* The items of the response to channels().list(id=",".join(batch)): one per
\* requested channel the endpoint holds.
ChannelItems(shift, batch) ==
    LET Held(id) == ChannelShape(shift, id) # "absent"
        held == SelectSeq(batch, Held)
    IN  [i \in 1..Len(held) |-> ChannelItem(shift, held[i])]

Reverse(s) == [i \in 1..Len(s) |-> s[Len(s) + 1 - i]]

\* The {} that item.get("topicDetails", {}) defaults to.
EmptyTopicDetails == [topicCategories |-> None]

\* topics[channel_id] = topic_categories
DictSet(d, k, v) == [x \in DOMAIN d \cup {k} |-> IF x = k THEN v ELSE d[x]]

\* A slip: a channel without topic categories gets no entry.
MergeItem_skipsUntopiced(tps, item) ==
    IF NoChannelId(item.id) THEN tps
    ELSE LET topic_details    == GetOr(item.topicDetails, EmptyTopicDetails)
             topic_categories == GetOr(topic_details.topicCategories, <<>>)
         IN  IF topic_categories = <<>> THEN tps
             ELSE DictSet(tps, item.id.v, topic_categories)

\* The body of the loop over the items of one channels response.
MergeItem(tps, item) ==
    IF NoChannelId(item.id) THEN tps
    ELSE LET topic_details    == GetOr(item.topicDetails, EmptyTopicDetails)
             topic_categories == GetOr(topic_details.topicCategories, <<>>)
         IN  DictSet(tps, item.id.v, topic_categories)

MergeItems(tps, items) == ForEach(MergeItem, tps, items)

(***************************************************************************)
(* load_credentials                                                        *)
(***************************************************************************)
NoValue == "None"

\* Credentials.valid of google-auth: a token is set and has not expired.
Valid(c) == c.token # NoValue /\ ~c.expired

\* creds.to_json() and Credentials.from_authorized_user_file.
ToJson(c) ==
    [token         |-> c.token,
     refresh_token |-> c.refresh_token,
     expiry        |-> IF c.expired THEN "past" ELSE "future"]

FromJson(j) ==
    [token         |-> j.token,
     refresh_token |-> j.refresh_token,
     expired       |-> j.expiry = "past"]

\* A slip: `or` for `and` between expired and refresh_token.
NeedsRefresh_or(c) ==
    IF c.some THEN (IF c.v.expired THEN TRUE ELSE c.v.refresh_token # NoValue)
    ELSE FALSE

\* creds and creds.expired and creds.refresh_token
NeedsRefresh(c) ==
    IF c.some THEN c.v.expired /\ c.v.refresh_token # NoValue ELSE FALSE

\* not creds or not creds.valid
NeedsNewToken(c) == IF c.some THEN ~Valid(c.v) ELSE TRUE

(***************************************************************************)
(* Subscription, categorize_subscriptions                                  *)
(***************************************************************************)
\* dict.get(key): the value, or None.
DictGet(d, k) == IF k \in DOMAIN d THEN Some(d[k]) ELSE None

\* Python's truth value of an optional list: None and [] are false.
Truthy(o) == IF o.some THEN o.v # <<>> ELSE FALSE

\* Slips: the genre is read from the last URL of the list; an empty list is
\* labelled with the empty string.
GenreOf_lastUrl(subscription, tps) ==
    LET topic_urls == DictGet(tps, subscription.channel_id)
    IN  IF Truthy(topic_urls)
        THEN readable_topic(topic_urls.v[Len(topic_urls.v)])
        ELSE Uncategorized

GenreOf_emptyUnlabelled(subscription, tps) ==
    LET topic_urls == DictGet(tps, subscription.channel_id)
    IN  IF Truthy(topic_urls) THEN readable_topic(topic_urls.v[1])
        ELSE IF topic_urls.some THEN <<>> ELSE Uncategorized

\* The genre of one subscription: the body of categorize_subscriptions' loop
\* up to the append.
GenreOf(subscription, tps) ==
    LET topic_urls == DictGet(tps, subscription.channel_id)
    IN  IF Truthy(topic_urls)
        THEN readable_topic(topic_urls.v[1])
        ELSE Uncategorized

\* A slip: the group is replaced by the new subscription, not extended.
GroupAppend_overwrite(g, genre, subscription) ==
    [k \in DOMAIN g \cup {genre} |-> IF k = genre THEN <<subscription>> ELSE g[k]]

\* grouped[genre].append(subscription) on a defaultdict(list).
GroupAppend(g, genre, subscription) ==
    [k \in DOMAIN g \cup {genre} |->
        IF k = genre
        THEN (IF genre \in DOMAIN g THEN g[genre] ELSE <<>>) \o <<subscription>>
        ELSE g[k]]

\* The loop of categorize_subscriptions, from the empty defaultdict.
categorize_subscriptions(subs, tps) ==
    LET Step(g, subscription) == GroupAppend(g, GenreOf(subscription, tps), subscription)
    IN  ForEach(Step, <<>>, subs)

(***************************************************************************)
(* render_markdown                                                         *)
(***************************************************************************)
\* a < b for Python strings: lexicographic by code point.
RECURSIVE StrLess(_, _)
StrLess(a, b) ==
    IF b = <<>> THEN FALSE
    ELSE IF a = <<>> THEN TRUE
    ELSE IF a[1] # b[1] THEN Ord(a[1]) < Ord(b[1])
    ELSE StrLess(Tail(a), Tail(b))

\* str.lower() on ASCII.
Lower(s) ==
    [i \in 1..Len(s) |-> IF Ord(s[i]) \in 65..90 THEN Chr(Ord(s[i]) + 32) ELSE s[i]]

\* sorted(keys): ascending, the keys of a dict being distinct.
RECURSIVE SortedKeys(_)
SortedKeys(S) ==
    IF S = {} THEN <<>>
    ELSE LET m == CHOOSE x \in S : \A y \in S \ {x} : StrLess(x, y)
         IN  <<m>> \o SortedKeys(S \ {m})

\* Slip: the titles are compared as they are, not lower-cased.
SortKey_caseSensitive(subscription) == subscription.title

\* key=lambda s: s.title.lower()
SortKey(subscription) == Lower(subscription.title)

\* Insert x into the sorted list s after every element whose key is not
\* greater: what makes the sort stable.
InsertSorted(s, x) ==
    LET greater == {i \in 1..Len(s) : StrLess(SortKey(x), SortKey(s[i]))}
        at == IF greater = {} THEN Len(s) + 1
              ELSE CHOOSE i \in greater : \A j \in greater : i <= j
    IN  SubSeq(s, 1, at - 1) \o <<x>> \o SubSeq(s, at, Len(s))

\* sorted(list, key=...): Python's sort is stable.
SortedByTitle(s) == ForEach(InsertSorted, <<>>, s)

IsSpace(c) == c \in {" ", "\n"}

\* str.strip()
RECURSIVE LStrip(_)
LStrip(s) == IF s # <<>> /\ IsSpace(s[1]) THEN LStrip(Tail(s)) ELSE s

RECURSIVE RStrip(_)
RStrip(s) ==
    IF s # <<>> /\ IsSpace(s[Len(s)]) THEN RStrip(SubSeq(s, 1, Len(s) - 1)) ELSE s

Strip(s) == RStrip(LStrip(s))

\* str.replace("\n", " ")
ReplaceNewlines(s) == [i \in 1..Len(s) |-> IF s[i] = "\n" THEN " " ELSE s[i]]

\* The lines of the document.  A line is a record of the fields the f-string
\* formats; the empty line is BlankLine.
TitleLine == [kind |-> "heading", text |-> "# YouTube Subscriptions by Genre"]

BlankLine == [kind |-> "blank"]

GenreLine(genre) == [kind |-> "genre", genre |-> genre]

EntryLine(subscription) ==
    LET description == ReplaceNewlines(Strip(subscription.description))
    IN  [kind        |-> "entry",
         title       |-> subscription.title,
         channel_url |-> subscription.channel_url,
         description |-> description]

EntryLines(s) == [i \in 1..Len(s) |-> EntryLine(s[i])]

RECURSIVE SectionLines(_, _)
SectionLines(g, genres) ==
    IF genres = <<>> THEN <<>>
    ELSE <<GenreLine(genres[1]), BlankLine>>
            \o EntryLines(SortedByTitle(g[genres[1]]))
            \o <<BlankLine>>
            \o SectionLines(g, Tail(genres))

\* "\n".join(lines).strip() + "\n": the first line is the heading and every
\* line before a trailing blank one ends in a character that is no white
\* space, so strip() removes exactly the trailing blank lines.
RECURSIVE DropTrailingBlank(_)
DropTrailingBlank(lines) ==
    IF lines # <<>> /\ lines[Len(lines)] = BlankLine
    THEN DropTrailingBlank(SubSeq(lines, 1, Len(lines) - 1))
    ELSE lines

render_markdown(g) ==
    DropTrailingBlank(<<TitleLine, BlankLine>> \o SectionLines(g, SortedKeys(DOMAIN g)))

(***************************************************************************)
(* Inputs.                                                                 *)
(***************************************************************************)
SeqsUpTo(S, n) == UNION {[1..k -> S] : k \in 0..n}

\* readable_topic: an optional "s://h" prefix followed by up to MaxTail
\* characters.
UrlChars == {"/", "_", "%", "2", "5", "m"}

UrlPrefixes == {<<>>, <<"s", ":", "/", "/", "h">>}

TopicUrls == {p \o t : p \in UrlPrefixes, t \in SeqsUpTo(UrlChars, MaxTail)}

\* categorize_subscriptions and render_markdown.
TopicLists ==
    {<<>>, <<UrlMusic>>, <<UrlMusic, UrlUpper>>, <<UrlUpper, UrlMusic>>,
     <<UrlNoName, UrlMusic>>}

CatChannels == {1, 2}

TopicMaps == UNION {[D -> TopicLists] : D \in SUBSET CatChannels}

SubPool ==
    {Subscription(1, <<"a">>, <<>>),
     Subscription(1, <<"A">>, <<" ", "d", "\n", "d", " ">>),
     Subscription(1, <<"B">>, <<"\n">>),
     Subscription(2, <<"A", "b">>, <<"d">>)}

\* fetch_subscriptions: the items and responses of the subscriptions
\* endpoint.
SubItem(channel_id, title, description) ==
    [snippet |-> Some([resourceId  |-> Some([channelId |-> channel_id]),
                       title       |-> title,
                       description |-> description])]

ItemFull == SubItem(Some(1), Some(<<"a">>), Some(<<"d", "\n">>))

ItemBare == SubItem(Some(2), None, None)

ItemNoSnippet == [snippet |-> None]

ItemNoResourceId ==
    [snippet |-> Some([resourceId |-> None, title |-> Some(<<"B">>), description |-> None])]

ItemNoChannelId == SubItem(None, Some(<<"B">>), None)

ItemEmptyChannelId == SubItem(Some(EmptyId), Some(<<"B">>), None)

PageSize == 50      \* maxResults=50

\* The k-th full page: PageSize items of distinct channels.
FullPage(k) ==
    [items |-> Some([i \in 1..PageSize |->
                SubItem(Some(PageSize * (k - 1) + i),
                        Some(IF i % 3 = 0 THEN <<"a">>
                             ELSE IF i % 3 = 1 THEN <<"B">> ELSE <<"A", "b">>),
                        None)])]

PagePool ==
    {[items |-> None],
     [items |-> Some(<<>>)],
     [items |-> Some(<<ItemFull>>)],
     [items |-> Some(<<ItemFull, ItemNoSnippet, ItemBare>>)],
     [items |-> Some(<<ItemNoResourceId, ItemNoChannelId, ItemEmptyChannelId>>)],
     [items |-> Some(<<ItemBare, ItemEmptyChannelId, ItemBare>>)],
     [items |-> Some(<<ItemNoChannelId, ItemFull>>)]}

MainPagePool ==
    {[items |-> Some(<<ItemFull, ItemNoSnippet, ItemBare>>)],
     FullPage(1),
     FullPage(2)}

\* What the output file holds before the run, when it exists.
OldOutput == Some(<<BlankLine>>)

PageChains(pool) == SeqsUpTo(pool, MaxPages) \ {<<>>}

\* fetch_channel_topics: n channel identifiers in ascending or descending
\* order, rotated, or repeating.
IdOrders == {"ascending", "descending", "rotated", "repeating"}

IdList(order, n) ==
    [i \in 1..n |->
        CASE order = "ascending"  -> i
          [] order = "descending" -> n + 1 - i
          [] order = "rotated"    -> ((i + 6) % n) + 1
          [] order = "repeating"  -> (i % 9) + 1]

ApiShifts == {0, 3}

\* load_credentials: the token file (absent, unreadable, or the JSON of a
\* credential) and the client secret file.
NoFile == [exists |-> FALSE]

Malformed == [exists |-> TRUE, malformed |-> TRUE]

TokenJson(j) == [exists |-> TRUE, malformed |-> FALSE, json |-> j]

StoredCredentials ==
    [token : {NoValue, "t_stored"}, refresh_token : {NoValue, "r_stored"},
     expiry : {"past", "future"}]

TokenFiles == {NoFile, Malformed} \cup {TokenJson(j) : j \in StoredCredentials}

FlowCredentials ==
    [token : {"t_flow"}, refresh_token : {NoValue, "r_flow"}, expired : {FALSE}]

MainTokenFiles ==
    {NoFile,
     TokenJson([token |-> "t_stored", refresh_token |-> "r_stored", expiry |-> "future"]),
     TokenJson([token |-> "t_stored", refresh_token |-> "r_stored", expiry |-> "past"])}

(***************************************************************************)
(* Values of the variables a function does not use.                        *)
(***************************************************************************)
LabelIdle == topic_url = <<>> /\ label = <<>>

DataIdle ==
    /\ subscriptions = <<>>
    /\ topics = <<>>
    /\ grouped = <<>>
    /\ markdown = <<>>

FetchIdle == pages = <<>> /\ request = 0 /\ requests = <<>>

TopicIdle == channel_ids = <<>> /\ api_channels = 0 /\ batches = <<>>

OutIdle ==
    /\ output_file = None
    /\ output_writes = 0
    /\ stdout = <<>>
    /\ stderr = <<>>
    /\ exit_status = NoValue

CredIdle ==
    /\ token_file = NoFile
    /\ client_secret = "present"
    /\ creds = None
    /\ loaded = None
    /\ cred_log = <<>>
    /\ returned_creds = None

(***************************************************************************)
(* readable_topic                                                          *)
(***************************************************************************)
LabelInit ==
    /\ pc = "readable_topic"
    /\ entry = "readable_topic"
    /\ error = NoValue
    /\ topic_url \in TopicUrls
    /\ label = <<>>
    /\ DataIdle /\ FetchIdle /\ TopicIdle /\ OutIdle /\ CredIdle

ReadableTopic ==
    /\ pc = "readable_topic"
    /\ label' = readable_topic(topic_url)
    /\ pc' = "done"
    /\ UNCHANGED <<entry, error, topic_url>>
    /\ UNCHANGED <<dataVars, fetchVars, topicVars, outVars, credVars>>

LabelNext == ReadableTopic

SpecLabel == LabelInit /\ [][LabelNext]_vars

(***************************************************************************)
(* load_credentials                                                        *)
(***************************************************************************)
\* Lines 51-53: the token file is read when it exists; an unreadable file
\* raises.
CredsLoad ==
    /\ pc = "load_credentials"
    /\ IF token_file.exists /\ token_file.malformed
       THEN /\ pc' = "raised"
            /\ error' = "ValueError"
            /\ UNCHANGED <<creds, loaded>>
       ELSE /\ pc' = "lc_check"
            /\ creds' = IF token_file.exists THEN Some(FromJson(token_file.json))
                        ELSE None
            /\ loaded' = creds'
            /\ UNCHANGED error
    /\ UNCHANGED <<entry, token_file, client_secret, cred_log, returned_creds>>
    /\ UNCHANGED <<labelVars, dataVars, fetchVars, topicVars, outVars>>

\* Line 55 false: the loaded credential is valid.
CredsValid ==
    /\ pc = "lc_check"
    /\ ~NeedsNewToken(creds)
    /\ pc' = "lc_return"
    /\ UNCHANGED <<entry, error, credVars>>
    /\ UNCHANGED <<labelVars, dataVars, fetchVars, topicVars, outVars>>

\* Lines 56-57: creds.refresh(Request()), which returns or raises.
CredsRefresh ==
    /\ pc = "lc_check"
    /\ NeedsNewToken(creds)
    /\ NeedsRefresh(creds)
    /\ \/ /\ creds' = Some([creds.v EXCEPT !.token = "t_refreshed", !.expired = FALSE])
          /\ cred_log' = cred_log \o <<"refresh", "refresh_ok">>
          /\ pc' = "lc_write"
          /\ UNCHANGED error
       \/ /\ cred_log' = Append(cred_log, "refresh")
          /\ pc' = "raised"
          /\ error' = "RefreshError"
          /\ UNCHANGED creds
    /\ UNCHANGED <<entry, token_file, client_secret, loaded, returned_creds>>
    /\ UNCHANGED <<labelVars, dataVars, fetchVars, topicVars, outVars>>

\* Lines 58-60: the interactive flow, which needs the client secret file and
\* returns a new credential or raises.
CredsFlow ==
    /\ pc = "lc_check"
    /\ NeedsNewToken(creds)
    /\ ~NeedsRefresh(creds)
    /\ \/ /\ client_secret = "present"
          /\ \E c \in FlowCredentials : creds' = Some(c)
          /\ cred_log' = cred_log \o <<"flow", "flow_ok">>
          /\ pc' = "lc_write"
          /\ UNCHANGED error
       \/ /\ cred_log' = Append(cred_log, "flow")
          /\ pc' = "raised"
          /\ error' = IF client_secret = "present" THEN "FlowError"
                      ELSE "FileNotFoundError"
          /\ UNCHANGED creds
    /\ UNCHANGED <<entry, token_file, client_secret, loaded, returned_creds>>
    /\ UNCHANGED <<labelVars, dataVars, fetchVars, topicVars, outVars>>

\* Line 61: token_path.write_text(creds.to_json())
CredsWrite ==
    /\ pc = "lc_write"
    /\ token_file' = TokenJson(ToJson(creds.v))
    /\ cred_log' = Append(cred_log, "write")
    /\ pc' = "lc_return"
    /\ UNCHANGED <<entry, error, client_secret, creds, loaded, returned_creds>>
    /\ UNCHANGED <<labelVars, dataVars, fetchVars, topicVars, outVars>>

\* Line 63, and in main line 203: the API handle is built on the credential.
CredsReturn ==
    /\ pc = "lc_return"
    /\ returned_creds' = creds
    /\ pc' = IF entry = "main" THEN "fetch_subscriptions" ELSE "done"
    /\ UNCHANGED <<entry, error, token_file, client_secret, creds, loaded, cred_log>>
    /\ UNCHANGED <<labelVars, dataVars, fetchVars, topicVars, outVars>>

CredsNext ==
    \/ CredsLoad
    \/ CredsValid
    \/ CredsRefresh
    \/ CredsFlow
    \/ CredsWrite
    \/ CredsReturn

CredsInit ==
    /\ pc = "load_credentials"
    /\ entry = "load_credentials"
    /\ error = NoValue
    /\ token_file \in TokenFiles
    /\ client_secret \in {"present", "missing"}
    /\ creds = None
    /\ loaded = None
    /\ cred_log = <<>>
    /\ returned_creds = None
    /\ LabelIdle /\ DataIdle /\ FetchIdle /\ TopicIdle /\ OutIdle

SpecCreds == CredsInit /\ [][CredsNext]_vars

(***************************************************************************)
(* fetch_subscriptions                                                     *)
(***************************************************************************)
\* Lines 69-75: the empty list and the request of the first page.
FetchCall ==
    /\ pc = "fetch_subscriptions"
    /\ subscriptions' = <<>>
    /\ request' = 1
    /\ pc' = "fetch_loop"
    /\ UNCHANGED <<entry, error, pages, requests, topics, grouped, markdown>>
    /\ UNCHANGED <<labelVars, topicVars, outVars, credVars>>

\* Lines 77-93, one turn of the loop: the request is executed, the items of
\* the response are appended, list_next gives the next request.
FetchPage ==
    /\ pc = "fetch_loop"
    /\ request # 0
    /\ requests' = Append(requests, request)
    /\ LET response == pages[request]
       IN  subscriptions' = AppendItems(subscriptions, GetOr(response.items, <<>>))
    /\ request' = ListNext(pages, request)
    /\ UNCHANGED <<pc, entry, error, pages, topics, grouped, markdown>>
    /\ UNCHANGED <<labelVars, topicVars, outVars, credVars>>

\* Line 78 raising: request.execute() fails with an HttpError or with an
\* error of the transport.
FetchPageFails ==
    /\ pc = "fetch_loop"
    /\ request # 0
    /\ requests' = Append(requests, request)
    /\ \E e \in {"HttpError", "TransportError"} : error' = e
    /\ pc' = "raised"
    /\ UNCHANGED <<entry, pages, request, dataVars>>
    /\ UNCHANGED <<labelVars, topicVars, outVars, credVars>>

\* Lines 77 and 95: request is None, the list is returned.
FetchReturn ==
    /\ pc = "fetch_loop"
    /\ request = 0
    /\ pc' = IF entry = "main" THEN "fetch_channel_topics" ELSE "done"
    /\ UNCHANGED <<entry, error, dataVars, fetchVars>>
    /\ UNCHANGED <<labelVars, topicVars, outVars, credVars>>

FetchNext == FetchCall \/ FetchPage \/ FetchPageFails \/ FetchReturn

FetchInit ==
    /\ pc = "fetch_subscriptions"
    /\ entry = "fetch_subscriptions"
    /\ error = NoValue
    /\ pages \in PageChains(PagePool)
    /\ request = 0
    /\ requests = <<>>
    /\ LabelIdle /\ DataIdle /\ TopicIdle /\ OutIdle /\ CredIdle

SpecFetch == FetchInit /\ [][FetchNext]_vars

(***************************************************************************)
(* fetch_channel_topics                                                    *)
(***************************************************************************)
\* Line 112, and in main the argument of line 207: the channel ids of the
\* subscriptions, in order.
TopicsCall ==
    /\ pc = "fetch_channel_topics"
    /\ topics' = <<>>
    /\ batches' = <<>>
    /\ channel_ids' = IF entry = "main"
                      THEN [i \in 1..Len(subscriptions) |-> subscriptions[i].channel_id]
                      ELSE channel_ids
    /\ pc' = "topics_loop"
    /\ UNCHANGED <<entry, error, api_channels, subscriptions, grouped, markdown>>
    /\ UNCHANGED <<labelVars, fetchVars, outVars, credVars>>

\* Lines 113-126, one turn of the loop: the next chunk is requested and the
\* items of the response, in the order the endpoint chose, are merged.
FetchBatch ==
    /\ pc = "topics_loop"
    /\ Len(batches) < Len(Chunked(channel_ids, BatchSize))
    /\ LET batch == Chunked(channel_ids, BatchSize)[Len(batches) + 1]
           items == ChannelItems(api_channels, batch)
       IN  /\ batches' = Append(batches, batch)
           /\ \E response \in {items, Reverse(items)} :
                topics' = MergeItems(topics, response)
    /\ UNCHANGED <<pc, entry, error, channel_ids, api_channels, subscriptions,
                   grouped, markdown>>
    /\ UNCHANGED <<labelVars, fetchVars, outVars, credVars>>

\* Line 119 raising.
FetchBatchFails ==
    /\ pc = "topics_loop"
    /\ Len(batches) < Len(Chunked(channel_ids, BatchSize))
    /\ batches' = Append(batches, Chunked(channel_ids, BatchSize)[Len(batches) + 1])
    /\ \E e \in {"HttpError", "TransportError"} : error' = e
    /\ pc' = "raised"
    /\ UNCHANGED <<entry, channel_ids, api_channels, dataVars>>
    /\ UNCHANGED <<labelVars, fetchVars, outVars, credVars>>

\* Line 127: the chunks are exhausted, the mapping is returned.
TopicsReturn ==
    /\ pc = "topics_loop"
    /\ Len(batches) = Len(Chunked(channel_ids, BatchSize))
    /\ pc' = IF entry = "main" THEN "categorize_subscriptions" ELSE "done"
    /\ UNCHANGED <<entry, error, dataVars, topicVars>>
    /\ UNCHANGED <<labelVars, fetchVars, outVars, credVars>>

TopicsNext == TopicsCall \/ FetchBatch \/ FetchBatchFails \/ TopicsReturn

TopicsInit ==
    /\ pc = "fetch_channel_topics"
    /\ entry = "fetch_channel_topics"
    /\ error = NoValue
    /\ \E n \in 0..MaxIds, order \in IdOrders : channel_ids = IdList(order, n)
    /\ api_channels \in ApiShifts
    /\ batches = <<>>
    /\ LabelIdle /\ DataIdle /\ FetchIdle /\ OutIdle /\ CredIdle

SpecTopics == TopicsInit /\ [][TopicsNext]_vars

(***************************************************************************)
(* categorize_subscriptions, render_markdown                               *)
(***************************************************************************)
\* Line 211 / lines 139-153.
Categorize ==
    /\ pc = "categorize_subscriptions"
    /\ grouped' = categorize_subscriptions(subscriptions, topics)
    /\ pc' = "render_markdown"
    /\ UNCHANGED <<entry, error, subscriptions, topics, markdown>>
    /\ UNCHANGED <<labelVars, fetchVars, topicVars, outVars, credVars>>

\* Line 212 / lines 156-170.
Render ==
    /\ pc = "render_markdown"
    /\ markdown' = render_markdown(grouped)
    /\ pc' = IF entry = "main" THEN "write_output" ELSE "done"
    /\ UNCHANGED <<entry, error, subscriptions, topics, grouped>>
    /\ UNCHANGED <<labelVars, fetchVars, topicVars, outVars, credVars>>

CatNext == Categorize \/ Render

CatInit ==
    /\ pc = "categorize_subscriptions"
    /\ entry = "categorize_subscriptions"
    /\ error = NoValue
    /\ subscriptions \in SeqsUpTo(SubPool, MaxSubs)
    /\ topics \in TopicMaps
    /\ grouped = <<>>
    /\ markdown = <<>>
    /\ LabelIdle /\ FetchIdle /\ TopicIdle /\ OutIdle /\ CredIdle

SpecCat == CatInit /\ [][CatNext]_vars

(***************************************************************************)
(* main                                                                    *)
(***************************************************************************)
\* Line 213 / 173-174: the file is overwritten with the document.
WriteOutput ==
    /\ pc = "write_output"
    /\ output_file' = Some(markdown)
    /\ output_writes' = output_writes + 1
    /\ pc' = "print"
    /\ UNCHANGED <<entry, error, stdout, stderr, exit_status>>
    /\ UNCHANGED <<labelVars, dataVars, fetchVars, topicVars, credVars>>

\* Line 215, and the normal end of the process.
PrintSummary ==
    /\ pc = "print"
    /\ stdout' = Append(stdout, [wrote |-> Len(subscriptions)])
    /\ exit_status' = 0
    /\ pc' = "exited"
    /\ UNCHANGED <<entry, error, output_file, output_writes, stderr>>
    /\ UNCHANGED <<labelVars, dataVars, fetchVars, topicVars, credVars>>

\* A slip: the handler reports the error and lets main go on.
MainRaised_goesOn ==
    /\ pc = "raised"
    /\ entry = "main"
    /\ stderr' = Append(stderr, "YouTube API request failed")
    /\ pc' = "categorize_subscriptions"
    /\ UNCHANGED <<entry, error, output_file, output_writes, stdout, exit_status>>
    /\ UNCHANGED <<labelVars, dataVars, fetchVars, topicVars, credVars>>

\* Lines 208-209: an HttpError becomes SystemExit with a message, which ends
\* the process with status 1.  Any other exception is not caught: the
\* interpreter prints the traceback and ends with status 1.
MainRaised ==
    /\ pc = "raised"
    /\ entry = "main"
    /\ stderr' = Append(stderr, IF error = "HttpError"
                                THEN "YouTube API request failed"
                                ELSE "Traceback")
    /\ exit_status' = 1
    /\ pc' = "exited"
    /\ UNCHANGED <<entry, error, output_file, output_writes, stdout>>
    /\ UNCHANGED <<labelVars, dataVars, fetchVars, topicVars, credVars>>

Next ==
    \/ CredsNext
    \/ FetchNext
    \/ TopicsNext
    \/ CatNext
    \/ WriteOutput
    \/ PrintSummary
    \/ MainRaised

Init ==
    /\ pc = "load_credentials"
    /\ entry = "main"
    /\ error = NoValue
    /\ token_file \in MainTokenFiles
    /\ client_secret = "present"
    /\ creds = None
    /\ loaded = None
    /\ cred_log = <<>>
    /\ returned_creds = None
    /\ pages \in PageChains(MainPagePool)
    /\ request = 0
    /\ requests = <<>>
    /\ channel_ids = <<>>
    /\ api_channels = 0
    /\ batches = <<>>
    /\ output_file \in {None, OldOutput}
    /\ output_writes = 0
    /\ stdout = <<>>
    /\ stderr = <<>>
    /\ exit_status = NoValue
    /\ LabelIdle /\ DataIdle

Spec == Init /\ [][Next]_vars

(***************************************************************************)
(* Helpers of the properties.                                              *)
(***************************************************************************)
Range(s) == {s[i] : i \in 1..Len(s)}

Count(s, x) == Cardinality({i \in 1..Len(s) : s[i] = x})

RECURSIVE SumLen(_, _)
SumLen(g, S) ==
    IF S = {} THEN 0
    ELSE LET k == CHOOSE x \in S : TRUE IN Len(g[k]) + SumLen(g, S \ {k})

RECURSIVE SumCount(_, _, _)
SumCount(g, S, x) ==
    IF S = {} THEN 0
    ELSE LET k == CHOOSE y \in S : TRUE IN Count(g[k], x) + SumCount(g, S \ {k}, x)

\* categorize_subscriptions has returned.
Categorized ==
    /\ entry = "categorize_subscriptions"
    /\ pc \in {"render_markdown", "done"}

\* The topic list of the i-th subscription, as topics.get returns it.
TopicsOf(i) == DictGet(topics, subscriptions[i].channel_id)

(***************************************************************************)
(* C4: the grouping is a partition of the input: no group is empty, the    *)
(* group lengths sum to the number of subscriptions, and every input       *)
(* subscription occurs in exactly one group, as many times over all groups *)
(* as in the input.                                                        *)
(***************************************************************************)
C4_GroupingIsPartition ==
    Categorized =>
        /\ \A g \in DOMAIN grouped : grouped[g] # <<>>
        /\ SumLen(grouped, DOMAIN grouped) = Len(subscriptions)
        /\ \A i \in 1..Len(subscriptions) :
            /\ Cardinality({g \in DOMAIN grouped :
                                Count(grouped[g], subscriptions[i]) > 0}) = 1
            /\ SumCount(grouped, DOMAIN grouped, subscriptions[i])
                    = Count(subscriptions, subscriptions[i])
        /\ \A g \in DOMAIN grouped : Range(grouped[g]) \subseteq Range(subscriptions)

\* Subscriptions with equal channel_id, one of them twice in the input, were
\* grouped into more than one genre.
C4_Witness ==
    /\ Categorized
    /\ Cardinality(DOMAIN grouped) >= 2
    /\ \E i, j \in 1..Len(subscriptions) :
        /\ i # j
        /\ subscriptions[i] = subscriptions[j]
    /\ \E i, j \in 1..Len(subscriptions) :
        /\ subscriptions[i] # subscriptions[j]
        /\ subscriptions[i].channel_id = subscriptions[j].channel_id

(***************************************************************************)
(* C5: a subscription whose channel has no entry in the topic map, or an   *)
(* empty one, is in the group "Uncategorized"; the grouping is the one     *)
(* produced with every missing key mapped to the empty list, and the one   *)
(* produced with every empty entry removed.                                *)
(***************************************************************************)
MissingAsEmpty(tps) ==
    [k \in DOMAIN tps \cup CatChannels |-> IF k \in DOMAIN tps THEN tps[k] ELSE <<>>]

EmptyAsMissing(tps) == [k \in {c \in DOMAIN tps : tps[c] # <<>>} |-> tps[k]]

C5_MissingOrEmptyIsUncategorized ==
    Categorized =>
        /\ \A i \in 1..Len(subscriptions) :
            (~TopicsOf(i).some \/ TopicsOf(i).v = <<>>) =>
                /\ Uncategorized \in DOMAIN grouped
                /\ subscriptions[i] \in Range(grouped[Uncategorized])
        /\ grouped = categorize_subscriptions(subscriptions, MissingAsEmpty(topics))
        /\ grouped = categorize_subscriptions(subscriptions, EmptyAsMissing(topics))

\* One subscription's channel is missing from the map, another's is mapped to
\* the empty list.
C5_Witness ==
    /\ Categorized
    /\ \E i, j \in 1..Len(subscriptions) :
        /\ ~TopicsOf(i).some
        /\ TopicsOf(j).some
        /\ TopicsOf(j).v = <<>>

(***************************************************************************)
(* C6: a subscription with a non-empty topic list is in the group labelled *)
(* readable_topic of the list's first URL; two lists with the same first   *)
(* URL give the same group, and the grouping is the one produced from the  *)
(* map with every list cut to its first URL.                               *)
(***************************************************************************)
FirstUrlOnly(tps) ==
    [k \in DOMAIN tps |-> IF tps[k] = <<>> THEN <<>> ELSE <<tps[k][1]>>]

C6_GenreFromFirstUrlOnly ==
    Categorized =>
        /\ \A i \in 1..Len(subscriptions) :
            Truthy(TopicsOf(i)) =>
                LET genre == readable_topic(TopicsOf(i).v[1])
                IN  /\ genre \in DOMAIN grouped
                    /\ subscriptions[i] \in Range(grouped[genre])
        /\ \A i, j \in 1..Len(subscriptions) :
            (/\ Truthy(TopicsOf(i))
             /\ Truthy(TopicsOf(j))
             /\ TopicsOf(i).v[1] = TopicsOf(j).v[1]) =>
                \E g \in DOMAIN grouped :
                    {subscriptions[i], subscriptions[j]} \subseteq Range(grouped[g])
        /\ grouped = categorize_subscriptions(subscriptions, FirstUrlOnly(topics))

\* Two subscriptions whose topic lists share the first URL and differ after
\* it were grouped.
C6_Witness ==
    /\ Categorized
    /\ \E i, j \in 1..Len(subscriptions) :
        /\ Truthy(TopicsOf(i))
        /\ Truthy(TopicsOf(j))
        /\ TopicsOf(i).v[1] = TopicsOf(j).v[1]
        /\ TopicsOf(i).v # TopicsOf(j).v
        /\ readable_topic(TopicsOf(j).v[Len(TopicsOf(j).v)])
                # readable_topic(TopicsOf(j).v[1])

(***************************************************************************)
(* C8: in the rendered document the genre headers are strictly ascending   *)
(* (each genre of the grouping once); in each section the entries are in   *)
(* non-decreasing order of lower-cased title, entries with equal           *)
(* lower-cased titles in the order of the genre's list, one entry per      *)
(* subscription.                                                           *)
(***************************************************************************)
Rendered == entry = "categorize_subscriptions" /\ pc = "done"

Headers(doc) == {i \in 1..Len(doc) : doc[i].kind = "genre"}

\* The entry lines between the header at i and the next header.
SectionEntries(doc, i) ==
    LET later == {j \in Headers(doc) : j > i}
        stop  == IF later = {} THEN Len(doc) + 1
                 ELSE CHOOSE j \in later : \A k \in later : j <= k
        IsEntry(l) == l.kind = "entry"
    IN  SelectSeq(SubSeq(doc, i + 1, stop - 1), IsEntry)

WithKey(lines, key) ==
    LET HasKey(l) == Lower(l.title) = key
    IN  SelectSeq(lines, HasKey)

C8_SectionsAndEntriesSorted ==
    Rendered =>
        /\ \A i, j \in Headers(markdown) :
            i < j => StrLess(markdown[i].genre, markdown[j].genre)
        /\ {markdown[i].genre : i \in Headers(markdown)} = DOMAIN grouped
        /\ \A i \in Headers(markdown) :
            LET es  == SectionEntries(markdown, i)
                src == EntryLines(grouped[markdown[i].genre])
            IN  /\ Len(es) = Len(src)
                /\ \A k, l \in 1..Len(es) :
                    k < l => ~StrLess(Lower(es[l].title), Lower(es[k].title))
                /\ \A k \in 1..Len(src) :
                    WithKey(es, Lower(src[k].title)) = WithKey(src, Lower(src[k].title))
        /\ Cardinality({i \in 1..Len(markdown) : markdown[i].kind = "entry"})
                = SumLen(grouped, DOMAIN grouped)

\* A section was rendered where sorting moved an entry, two different entries
\* have equal lower-cased titles, and there is more than one section.
C8_Witness ==
    /\ Rendered
    /\ Cardinality(Headers(markdown)) >= 2
    /\ \E i \in Headers(markdown) :
        LET es  == SectionEntries(markdown, i)
            src == EntryLines(grouped[markdown[i].genre])
        IN  /\ es # src
            /\ \E k, l \in 1..Len(es) :
                /\ k < l
                /\ es[k] # es[l]
                /\ Lower(es[k].title) = Lower(es[l].title)

(***************************************************************************)
(* C1: write_output runs at most once, and only after every page and every *)
(* batch was requested without error; once a request of either endpoint    *)
(* has failed, the output file is never written, nothing is printed, and   *)
(* the process can only end, with a non-zero status.                       *)
(***************************************************************************)
RequestFailed == error \in {"HttpError", "TransportError"}

RECURSIVE Concat(_)
Concat(ss) == IF ss = <<>> THEN <<>> ELSE ss[1] \o Concat(Tail(ss))

C1_NoOutputAfterFailedRequest ==
    /\ output_writes <= 1
    /\ output_writes = 1 =>
        /\ error = NoValue
        /\ requests = [i \in 1..Len(pages) |-> i]
        /\ request = 0
        /\ channel_ids = [i \in 1..Len(subscriptions) |-> subscriptions[i].channel_id]
        /\ Concat(batches) = channel_ids
        /\ output_file = Some(markdown)
    /\ output_writes = 0 => output_file \in {None, OldOutput}
    /\ RequestFailed =>
        /\ output_writes = 0
        /\ stdout = <<>>
        /\ pc \in {"raised", "exited"}
        /\ pc = "exited" => exit_status = 1 /\ stderr # <<>>
    /\ (pc = "exited" /\ exit_status = 0) =>
        /\ output_writes = 1
        /\ stdout = <<[wrote |-> Len(subscriptions)]>>

\* The second batch request failed after two pages and one batch had been
\* served, and the process has ended.
C1_Witness ==
    /\ pc = "exited"
    /\ error = "HttpError"
    /\ Len(requests) = 2
    /\ Len(batches) = 2
    /\ output_file = OldOutput
    /\ exit_status = 1

(***************************************************************************)
(* C2: fetch_subscriptions requests the pages of the chain one by one, in  *)
(* order and each once, stops exactly after the last, and returns, in page *)
(* order and item order, one Subscription per item that has a non-empty    *)
(* snippet.resourceId.channelId; the other items are skipped.              *)
(***************************************************************************)
\* The item has a channel identifier that is present and not empty.
HasChannelId(item) ==
    IF ~item.snippet.some THEN FALSE
    ELSE IF ~item.snippet.v.resourceId.some THEN FALSE
    ELSE IF ~item.snippet.v.resourceId.v.channelId.some THEN FALSE
    ELSE item.snippet.v.resourceId.v.channelId.v # EmptyId

SubscriptionsOfPage(page) ==
    LET items == IF page.items.some THEN SelectSeq(page.items.v, HasChannelId) ELSE <<>>
    IN  [i \in 1..Len(items) |->
            LET snippet == items[i].snippet.v
                id      == snippet.resourceId.v.channelId.v
            IN  [channel_id  |-> id,
                 title       |-> IF snippet.title.some THEN snippet.title.v ELSE <<>>,
                 description |-> IF snippet.description.some
                                 THEN snippet.description.v ELSE <<>>,
                 channel_url |-> <<"https://www.youtube.com/channel/", id>>]]

C2_OneRequestPerPageAndAllItems ==
    entry = "fetch_subscriptions" =>
        /\ pc \in {"fetch_loop", "done", "raised"} =>
            requests = [i \in 1..Len(requests) |-> i]
        /\ pc = "fetch_loop" =>
            /\ request = 0 <=> Len(requests) = Len(pages)
            /\ request # 0 => request = Len(requests) + 1
            /\ subscriptions =
                Concat([i \in 1..Len(requests) |-> SubscriptionsOfPage(pages[i])])
        /\ pc = "done" =>
            /\ Len(requests) = Len(pages)
            /\ subscriptions =
                Concat([i \in 1..Len(pages) |-> SubscriptionsOfPage(pages[i])])

\* The list was returned for a chain where a page with an item to skip is
\* followed by a page with an item to keep.
C2_Witness ==
    /\ entry = "fetch_subscriptions"
    /\ pc = "done"
    /\ subscriptions # <<>>
    /\ \E p \in 1..(Len(pages) - 1) :
        /\ pages[p].items.some
        /\ \E i \in 1..Len(pages[p].items.v) : ~HasChannelId(pages[p].items.v[i])
        /\ SubscriptionsOfPage(pages[p + 1]) # <<>>

(***************************************************************************)
(* C3: fetch_channel_topics issues ceil(n / 50) requests for n channel     *)
(* ids; every batch but the last holds 50 ids, the last between 1 and 50,  *)
(* and the batches in issue order concatenate to the input (120 ids give   *)
(* batches of 50, 50 and 20).                                              *)
(***************************************************************************)
C3_BatchesOfFifty ==
    (entry = "fetch_channel_topics" /\ pc \in {"topics_loop", "raised", "done"}) =>
        LET n     == Len(channel_ids)
            sofar == Concat(batches)
        IN  /\ \A b \in 1..Len(batches) : Len(batches[b]) \in 1..50
            /\ \A b \in 1..(Len(batches) - 1) : Len(batches[b]) = 50
            /\ Len(sofar) <= n
            /\ sofar = SubSeq(channel_ids, 1, Len(sofar))
            /\ pc = "done" =>
                /\ Len(batches) = (n + 49) \div 50
                /\ sofar = channel_ids
                /\ n = 120 =>
                    [b \in 1..Len(batches) |-> Len(batches[b])] = <<50, 50, 20>>

\* 120 ids were fetched in three batches.
C3_Witness ==
    /\ entry = "fetch_channel_topics"
    /\ pc = "done"
    /\ Len(channel_ids) = 120
    /\ Len(batches) = 3
    /\ Len(batches[3]) = 20

(***************************************************************************)
(* C9: the mapping fetch_channel_topics returns depends on the set of      *)
(* requested ids only: its keys are the ids the endpoint returned an item  *)
(* for, a channel without topic details or categories is mapped to the     *)
(* empty list, an absent channel has no entry, and merging the batches in  *)
(* reverse order or fetching the reversed input gives the same mapping.    *)
(***************************************************************************)
TopicsFetched == entry = "fetch_channel_topics" /\ pc = "done"

ExpectedTopics(ids) ==
    [id \in {c \in ids : ChannelShape(api_channels, c) \notin {"absent", "noid"}} |->
        CASE ChannelShape(api_channels, id) = "music" -> <<UrlMusic>>
          [] ChannelShape(api_channels, id) = "upper" -> <<UrlUpper, UrlMusic>>
          [] OTHER -> <<>>]

TopicsOfBatches(bs) ==
    LET Step(tps, batch) == MergeItems(tps, ChannelItems(api_channels, batch))
    IN  ForEach(Step, <<>>, bs)

C9_MappingIndependentOfBatchOrder ==
    TopicsFetched =>
        /\ topics = ExpectedTopics({channel_ids[i] : i \in 1..Len(channel_ids)})
        /\ topics = TopicsOfBatches(Reverse(batches))
        /\ topics = TopicsOfBatches(Chunked(Reverse(channel_ids), BatchSize))

\* Several batches were merged, with a channel requested in two of them, a
\* channel without topic details and a channel the endpoint does not hold.
C9_Witness ==
    /\ TopicsFetched
    /\ Len(batches) >= 2
    /\ \E i \in 1..Len(batches[1]), j \in 1..Len(batches[2]) :
            batches[1][i] = batches[2][j]
    /\ \E i \in 1..Len(channel_ids) :
        /\ ChannelShape(api_channels, channel_ids[i]) = "nodetails"
        /\ channel_ids[i] \in DOMAIN topics
        /\ topics[channel_ids[i]] = <<>>
    /\ \E i \in 1..Len(channel_ids) :
        /\ ChannelShape(api_channels, channel_ids[i]) = "absent"
        /\ channel_ids[i] \notin DOMAIN topics

(***************************************************************************)
(* C10: load_credentials takes one of three paths.  A valid credential     *)
(* read from the token file is returned with no refresh, no interactive    *)
(* flow and no write; an invalid one that is expired and has a refresh     *)
(* token is refreshed and the flow never runs; in every other case the     *)
(* flow runs and no refresh is made.  The token file is written, once,     *)
(* exactly when the refresh or the flow completed, and it then holds the   *)
(* credential that is returned.                                            *)
(***************************************************************************)
Logged(e) == \E i \in 1..Len(cred_log) : cred_log[i] = e

\* The token file was read (line 53 passed).
TokenLoaded ==
    /\ entry = "load_credentials"
    /\ pc # "load_credentials"
    /\ error # "ValueError"

PastCheck == pc \in {"lc_write", "lc_return", "done", "raised"}

LoadedValid == IF loaded.some THEN Valid(loaded.v) ELSE FALSE

LoadedRefreshable ==
    IF loaded.some
    THEN ~Valid(loaded.v) /\ loaded.v.expired /\ loaded.v.refresh_token # NoValue
    ELSE FALSE

C10_ThreePathsAndTokenWrite ==
    TokenLoaded =>
        /\ LoadedValid =>
            /\ cred_log = <<>>
            /\ token_file = TokenJson(ToJson(loaded.v))
            /\ pc \in {"lc_check", "lc_return", "done"}
            /\ pc = "done" => returned_creds = loaded
        /\ LoadedRefreshable =>
            /\ ~Logged("flow")
            /\ PastCheck => Logged("refresh")
        /\ (~LoadedValid /\ ~LoadedRefreshable) =>
            /\ ~Logged("refresh")
            /\ PastCheck => Logged("flow")
        /\ Cardinality({i \in 1..Len(cred_log) : cred_log[i] = "write"}) <= 1
        /\ Logged("write") => (Logged("refresh_ok") \/ Logged("flow_ok"))
        /\ pc \in {"lc_return", "done"} =>
            (Logged("write") <=> (Logged("refresh_ok") \/ Logged("flow_ok")))
        /\ pc = "raised" => (~Logged("write") /\ ~Logged("refresh_ok") /\ ~Logged("flow_ok"))
        /\ (pc = "done" /\ Logged("write")) =>
            /\ returned_creds.some
            /\ token_file = TokenJson(ToJson(returned_creds.v))
        /\ (~Logged("write") /\ loaded.some) => token_file = TokenJson(ToJson(loaded.v))
        /\ (~Logged("write") /\ ~loaded.some) => token_file = NoFile

\* An expired credential with a refresh token was refreshed, written and
\* returned.
C10_Witness ==
    /\ entry = "load_credentials"
    /\ pc = "done"
    /\ cred_log = <<"refresh", "refresh_ok", "write">>
    /\ loaded.v.token # NoValue
    /\ returned_creds.v.token = "t_refreshed"

(***************************************************************************)
(* C7 as stated: decoding the label returned by readable_topic a second    *)
(* time returns the same label, for every topic URL.                       *)
(***************************************************************************)
C7_DecodingLabelAgainIsIdentity ==
    (pc = "done" /\ entry = "readable_topic") => Unquote(label) = label

\* C7 amended: when the final path segment of the URL, decoded once, holds no
\* percent sign followed by two hexadecimal digits, decoding the label
\* returned by readable_topic a second time returns the same label.
C7_DecodingAgainIsIdentityWithoutEscape ==
    (/\ pc = "done"
     /\ entry = "readable_topic"
     /\ ~HasEscape(Unquote(ReplaceUnderscores(LastSegment(UrlPath(topic_url))))))
        => Unquote(label) = label

\* A URL whose final segment holds an escape was decoded, and the label holds
\* a percent sign that is no escape.
C7_Witness ==
    /\ pc = "done"
    /\ entry = "readable_topic"
    /\ HasEscape(LastSegment(UrlPath(topic_url)))
    /\ \E i \in 1..Len(label) : label[i] = "%"
    /\ ~HasEscape(label)

====
